---- MODULE Spec2Model ----
(***************************************************************************)
(* Model of medusa/subtitle_providers/wizdom.py: the Wizdom subtitle       *)
(* provider (WizdomSubtitle.get_matches, WizdomProvider._search_imdb_id,   *)
(* _get_subtitles_for_episode, query, list_subtitles, download_subtitle).  *)
(*                                                                         *)
(* Python values are represented as follows.                               *)
(*   - text that is compared through sanitize (series, title) is a         *)
(*     sequence of one-character strings; None is NoneName;                *)
(*   - identifiers (imdb ids) are TLA+ strings; None is NoneStr, the       *)
(*     Python string 'None' is "None", the empty string is "";             *)
(*   - integers that may be None (season, episode, year, tmdb id) are      *)
(*     integers, None is NoneInt.                                          *)
(***************************************************************************)
EXTENDS Integers, Sequences, FiniteSets, TLC

VARIABLES
    pc,         \* where the provider is: "idle", inside an operation, "done"
    session,    \* WizdomProvider.session: "none", "open", "closed"
    video,      \* the video argument of the running operation
    languages,  \* the languages argument of list_subtitles
    subtitle,   \* the subtitle argument of get_matches / download_subtitle
    matches,    \* the set get_matches returned
    frame,      \* the local variables of list_subtitles, query, _search_imdb_id
    requests,   \* the HTTP requests the running operation has issued, in order
    responses,  \* the responses received, responses[i] answering requests[i]
    returned,   \* the list list_subtitles returned
    error,      \* the exception the running operation raised, "" if none
    cache       \* region cache of _search_imdb_id: key -> value or NoValue

vars == <<pc, session, video, languages, subtitle, matches, frame, requests,
          responses, returned, error, cache>>

-----------------------------------------------------------------------------
(* Bounds of the model *)

\* seasons and episodes range over None and 0..MaxNum
MaxNum == 1

\* a catalog response carries at most MaxRecords records
MaxRecords == 2

\* a downloaded archive has at most MaxEntries entries
MaxEntries == 2

-----------------------------------------------------------------------------
(* Python values *)

NoneInt == 0 - 1
NoneStr == "<None>"
NoneName == <<"<None>">>
NoneBytes == <<"<None>">>

\* Python truthiness of an int-or-None, a str-or-None, a text-or-None
TruthyInt(n) == n # NoneInt /\ n # 0
TruthyStr(s) == s # NoneStr /\ s # ""
TruthyName(s) == s # NoneName /\ s # <<>>

Nums == {NoneInt} \cup (0..MaxNum)

-----------------------------------------------------------------------------
(* subliminal.utils.sanitize *)

\* re.sub('[-:().]', ' ', s): some characters become one space
ReplaceSeparators(s) ==
    [i \in 1..Len(s) |-> IF s[i] \in {"-", ":", "(", ")", "."} THEN " " ELSE s[i]]

\* re.sub("[']", '', s): apostrophes are removed
RECURSIVE RemoveApostrophes(_)
RemoveApostrophes(s) ==
    IF s = <<>> THEN <<>>
    ELSE IF Head(s) = "'" THEN RemoveApostrophes(Tail(s))
         ELSE <<Head(s)>> \o RemoveApostrophes(Tail(s))

\* re.sub('\s+', ' ', s): a run of spaces becomes one space
RECURSIVE CollapseSpaces(_)
CollapseSpaces(s) ==
    IF Len(s) < 2 THEN s
    ELSE IF s[1] = " " /\ s[2] = " " THEN CollapseSpaces(Tail(s))
         ELSE <<Head(s)>> \o CollapseSpaces(Tail(s))

\* str.strip() after the collapse: at most one space at either end
Strip(s) ==
    LET a == IF s # <<>> /\ Head(s) = " " THEN Tail(s) ELSE s
    IN  IF a # <<>> /\ a[Len(a)] = " " THEN SubSeq(a, 1, Len(a) - 1) ELSE a

LowerChar(c) == CASE c = "A" -> "a" [] c = "B" -> "b" [] OTHER -> c

Lower(s) == [i \in 1..Len(s) |-> LowerChar(s[i])]

sanitize(s) ==
    IF s = NoneName THEN NoneName
    ELSE Lower(Strip(CollapseSpaces(RemoveApostrophes(ReplaceSeparators(s)))))

-----------------------------------------------------------------------------
(* guessit and subliminal.matches.guess_matches *)

\* The release labels (versioname) of the model, and what guessit extracts
\* from each: a guess has the keys title, season, episode; a key that is
\* absent from the guess is None here.
Releases == {"A.b.S01E01.HDTV", "a-b.S00E01", "a.b.2019.720p"}

guessit(release, type) ==
    CASE release = "A.b.S01E01.HDTV" /\ type = "episode" ->
            [title |-> <<"A", " ", "b">>, season |-> 1, episode |-> 1]
      [] release = "a-b.S00E01" /\ type = "episode" ->
            [title |-> <<"a", "-", "b">>, season |-> 0, episode |-> 1]
      [] OTHER ->
            [title |-> <<"a", " ", "b">>, season |-> NoneInt, episode |-> NoneInt]

guess_matches(v, guess) ==
    IF v.kind = "Episode" THEN
        (IF TruthyName(v.series) /\ guess.title # NoneName
              /\ sanitize(guess.title) = sanitize(v.series)
           THEN {"series"} ELSE {})
        \cup (IF TruthyInt(v.season) /\ guess.season # NoneInt
                  /\ guess.season = v.season
                THEN {"season"} ELSE {})
        \cup (IF TruthyInt(v.episode) /\ guess.episode # NoneInt
                  /\ guess.episode = v.episode
                THEN {"episode"} ELSE {})
    ELSE
        (IF TruthyName(v.title) /\ guess.title # NoneName
              /\ sanitize(guess.title) = sanitize(v.title)
           THEN {"title"} ELSE {})

-----------------------------------------------------------------------------
(* WizdomSubtitle *)

\* WizdomSubtitle.__init__
WizdomSubtitle(language, hearing_impaired, page_link, series, season, episode, title, imdb_id, subtitle_id, release) ==
    [language |-> language, hearing_impaired |-> hearing_impaired,
     page_link |-> page_link, series |-> series, season |-> season,
     episode |-> episode, title |-> title, imdb_id |-> imdb_id,
     subtitle_id |-> subtitle_id, downloaded |-> 0, release |-> release,
     content |-> NoneBytes]

\* the four comparisons of get_matches made for an Episode
SeriesMatch(self, v) ==
    TruthyName(v.series) /\ sanitize(self.series) = sanitize(v.series)

\* the comparison of the seasons left out
SeasonMatchAnySeason(self, v) == TruthyInt(v.season)

SeasonMatch(self, v) == TruthyInt(v.season) /\ self.season = v.season

EpisodeMatch(self, v) == TruthyInt(v.episode) /\ self.episode = v.episode

ImdbMatch(self, v) ==
    TruthyStr(v.series_imdb_id) /\ self.imdb_id = v.series_imdb_id

TitleMatch(self, v) ==
    TruthyName(v.title) /\ sanitize(self.title) = sanitize(v.title)

\* WizdomSubtitle.get_matches
get_matches(self, v) ==
    (IF v.kind = "Episode" THEN
        (IF SeriesMatch(self, v) THEN {"series"} ELSE {})
        \cup (IF SeasonMatch(self, v) THEN {"season"} ELSE {})
        \cup (IF EpisodeMatch(self, v) THEN {"episode"} ELSE {})
        \cup (IF ImdbMatch(self, v) THEN {"series_imdb_id"} ELSE {})
        \cup guess_matches(v, guessit(self.release, "episode"))
     ELSE guess_matches(v, guessit(self.release, "movie")))
    \cup (IF TitleMatch(self, v) THEN {"title"} ELSE {})

-----------------------------------------------------------------------------
(* WizdomProvider: constants and the HTTP exchange *)

\* languages = {Language.fromalpha2(l) for l in ['he']}
Hebrew == "he"

server_url == "wizdom.xyz"

\* cache miss of the region cache (dogpile's NO_VALUE)
NoValue == "<NO_VALUE>"

\* the locals of an operation that is not running
NoFrame ==
    [title |-> NoneName, season |-> NoneInt, episode |-> NoneInt,
     year |-> NoneInt, filename |-> "", imdb_id |-> NoneStr,
     is_movie |-> FALSE, category |-> "", tmdb_id |-> NoneInt,
     page_link |-> <<>>, results |-> <<>>, subtitles |-> <<>>]

NoVideo ==
    [kind |-> "", title |-> NoneName, series |-> NoneName, season |-> NoneInt,
     episode |-> NoneInt, year |-> NoneInt, imdb_id |-> NoneStr,
     series_imdb_id |-> NoneStr, name |-> ""]

NoSubtitle == WizdomSubtitle("", FALSE, <<>>, NoneName, NoneInt, NoneInt,
                             NoneName, NoneStr, 0, "")

\* 'http://api.tmdb.org/3/search/{category}?api_key=..&query={title}{&year=}'
SearchRequest(category, title, year) ==
    <<"GET", "api.tmdb.org/3/search", category, title,
      IF TruthyInt(year) THEN <<"year", year>> ELSE <<>> >>

\* 'http://api.tmdb.org/3/{category}/{tmdb_id}{/external_ids}?api_key=..'
DetailRequest(category, tmdb_id, is_movie) ==
    <<"GET", "api.tmdb.org/3", category, tmdb_id,
      IF is_movie THEN "" ELSE "/external_ids">>

\* 'https://wizdom.xyz/api/search?action=by_id&imdb=..&season=..&episode=..'
CatalogRequest(imdb_id, season, episode) ==
    <<"GET", server_url, "/api/search", "by_id", imdb_id, season, episode>>

\* 'https://wizdom.xyz/api/files/sub/{subtitle_id}', Referer, timeout=10
DownloadRequest(sub) ==
    <<"GET", server_url, "/api/files/sub", sub.subtitle_id,
      <<"Referer", sub.page_link>>, <<"timeout", 10>> >>

IsSearchRequest(r) == r[2] = "api.tmdb.org/3/search"
IsDetailRequest(r) == r[2] = "api.tmdb.org/3"
IsCatalogRequest(r) == r[2] = server_url /\ r[3] = "/api/search"
IsDownloadRequest(r) == r[2] = server_url /\ r[3] = "/api/files/sub"

\* a response: how the exchange ended and, when it carries one, the body
\*   kind "exception"  - session.get itself raised (connection, timeout)
\*   kind "status"     - a non-success status: raise_for_status raises
\*   kind "undecodable"- a success status whose body is not JSON / not a zip
\*   kind "ok"         - a success status with the decoded body
Response(kind, body) == [kind |-> kind, body |-> body]

\* the status of the response left unchecked
raise_for_status_skipped(resp) == ""

\* r.raise_for_status(): the exception it raises, "" when it returns
raise_for_status(resp) == IF resp.kind = "status" THEN "HTTPError" ELSE ""

\* session.get(..), raise_for_status() and the decoding of the body, in
\* that order: the exception raised, "" when all three succeed
RequestError(resp, decode_error) ==
    CASE resp.kind = "exception" -> "RequestException"
      [] raise_for_status(resp) # "" -> raise_for_status(resp)
      [] resp.kind = "undecodable" -> decode_error
      [] OTHER -> ""

-----------------------------------------------------------------------------
(* WizdomProvider.query and its helpers *)

\* is_movie = not (season and episode)
IsMovie(season, episode) == ~(TruthyInt(season) /\ TruthyInt(episode))

\* category = 'movie' if is_movie else 'tv'
Category(is_movie) == IF is_movie THEN "movie" ELSE "tv"

\* page_link = 'https://{}/#/{}/{}'.format(server_url, 'movies' | 'series', imdb_id)
PageLink(is_movie, imdb_id) ==
    <<"https://", server_url, "/#/", IF is_movie THEN "movies" ELSE "series",
      "/", imdb_id>>

\* the key cache_on_arguments derives from the call's arguments
CacheKey(title, year, is_movie) == <<title, year, is_movie>>

\* a missing or empty 'results' array taken for a first result
FirstTmdbIdDefault(body) ==
    IF ~body.has_results \/ body.results = <<>> THEN 1 ELSE body.results[1]

\* tmdb_results = r.json().get('results'); tmdb_results[0].get('id'):
\* the body says whether it has the key 'results' and gives the array as
\* the sequence of its records' ids (NoneInt when a record has no id);
\* the value is NoneInt when the code reaches 'return None' without an id
FirstTmdbId(body) ==
    IF ~body.has_results \/ body.results = <<>> THEN NoneInt
    ELSE body.results[1]

\* str(r.json().get('imdb_id', '')) or None: the body is its 'imdb_id'
\* member, "<absent>" when the key is missing, NoneStr when it is null
ImdbIdOf(body) ==
    LET got == IF body = "<absent>" THEN "" ELSE body
        text == IF got = NoneStr THEN "None" ELSE got
    IN  IF text = "" THEN NoneStr ELSE text

\* except ValueError alone
CaughtValueErrorOnly(err) == err = "ValueError"

\* except (Exception, ValueError): every exception of the try block is
\* an Exception
Caught(err) == err \in {"RequestException", "HTTPError", "ValueError"}

\* _get_subtitles_for_episode: results = [] unless the request, the status
\* check and the JSON decoding all succeed
CatalogResults(resp) ==
    IF RequestError(resp, "ValueError") # "" THEN <<>> ELSE resp.body

\* subtitles.setdefault(subtitle_id, subtitle): the first record of an id
\* is kept
DictSetKeepFirst(d, sub) ==
    IF \E i \in 1..Len(d) : d[i].subtitle_id = sub.subtitle_id
    THEN d
    ELSE Append(d, sub)

\* subtitles[subtitle_id] = subtitle on a dict kept as the sequence of its
\* values in insertion order: an existing key keeps its place and takes
\* the new value, a new key is appended
DictSet(d, sub) ==
    IF \E i \in 1..Len(d) : d[i].subtitle_id = sub.subtitle_id
    THEN [i \in 1..Len(d) |->
            IF d[i].subtitle_id = sub.subtitle_id THEN sub ELSE d[i]]
    ELSE Append(d, sub)

\* the loop of query over results, then list(itervalues(subtitles))
RECURSIVE BuildSubtitles(_, _, _)
BuildSubtitles(fr, results, d) ==
    IF results = <<>> THEN d
    ELSE BuildSubtitles(fr, Tail(results),
            DictSet(d, WizdomSubtitle(Hebrew, FALSE, fr.page_link, fr.title,
                                      fr.season, fr.episode, fr.title,
                                      fr.imdb_id, Head(results).id,
                                      Head(results).versioname)))

\* the language filter left out
FilterLanguagesNone(subs, langs) == subs

\* [s for s in ... if s.language in languages]
RECURSIVE FilterLanguages(_, _)
FilterLanguages(subs, langs) ==
    IF subs = <<>> THEN <<>>
    ELSE IF Head(subs).language \in langs
         THEN <<Head(subs)>> \o FilterLanguages(Tail(subs), langs)
         ELSE FilterLanguages(Tail(subs), langs)

-----------------------------------------------------------------------------
(* The inputs of the model *)

\* series names and titles: three that sanitize to "a b" and one that
\* does not
Names == {<<"A", "-", "b">>, <<"a", " ", "'", "B">>, <<"a", " ", " ", "b">>,
          <<"a", "b">>}

ImdbIds == {"tt1", "tt2"}

Years == {NoneInt, 2019}

LanguageSets == {{"he"}, {"en"}, {"he", "en"}}

\* the videos handed to list_subtitles
Episodes ==
    [kind : {"Episode"}, title : {NoneName}, series : {<<"a", " ", "'", "B">>},
     season : 0..MaxNum, episode : 0..MaxNum, year : {NoneInt},
     imdb_id : {NoneStr}, series_imdb_id : {NoneStr, "tt1"},
     name : {"v.mkv"}]

Movies ==
    [kind : {"Movie"}, title : {<<"a", " ", "'", "B">>}, series : {NoneName},
     season : {NoneInt}, episode : {NoneInt}, year : Years,
     imdb_id : {NoneStr, "", "tt2"}, series_imdb_id : {NoneStr},
     name : {"v.mkv"}]

Videos == Episodes \cup Movies

\* the arguments _search_imdb_id is called with, hence the keys of its cache
CacheKeys ==
    {CacheKey(v.series, v.year, b) : v \in Episodes, b \in BOOLEAN}
    \cup {CacheKey(v.title, v.year, TRUE) : v \in Movies}

\* bodies of the metadata search: no 'results' key, an empty array, a first
\* record without id, with id 0, with a usable id
SearchBodies ==
    {[has_results |-> FALSE, results |-> <<>>],
     [has_results |-> TRUE, results |-> <<>>],
     [has_results |-> TRUE, results |-> <<NoneInt>>],
     [has_results |-> TRUE, results |-> <<0, 8>>],
     [has_results |-> TRUE, results |-> <<5, 8>>]}

SearchResponses ==
    {Response(k, [has_results |-> FALSE, results |-> <<>>]) :
       k \in {"exception", "status", "undecodable"}}
    \cup {Response("ok", b) : b \in SearchBodies}

\* the 'imdb_id' member of the detail body: missing, null, empty, present
DetailResponses ==
    {Response(k, "<absent>") : k \in {"exception", "status", "undecodable"}}
    \cup {Response("ok", b) : b \in {"<absent>", NoneStr, "", "tt1"}}

\* the records of a catalog response
CatalogIds == {7, 9}

CatalogRecords == [id : CatalogIds, versioname : {"A.b.S01E01.HDTV", "a-b.S00E01"}]

RECURSIVE SeqsUpTo(_, _)
SeqsUpTo(S, n) ==
    IF n = 0 THEN {<<>>}
    ELSE LET shorter == SeqsUpTo(S, n - 1)
         IN  shorter \cup {Append(q, x) : q \in {r \in shorter : Len(r) = n - 1}, x \in S}

CatalogResponses ==
    {Response(k, <<>>) : k \in {"exception", "status", "undecodable"}}
    \cup {Response("ok", b) : b \in SeqsUpTo(CatalogRecords, MaxRecords)}

-----------------------------------------------------------------------------
(* Initial state and the session's lifecycle *)

Init ==
    /\ pc = "idle"
    /\ session = "none"
    /\ video = NoVideo
    /\ languages = {}
    /\ subtitle = NoSubtitle
    /\ matches = {}
    /\ frame = NoFrame
    /\ requests = <<>>
    /\ responses = <<>>
    /\ returned = <<>>
    /\ error = ""
    /\ cache = [k \in CacheKeys |-> NoValue]

\* WizdomProvider.initialize
initialize ==
    /\ pc = "idle"
    /\ session' = "open"
    /\ UNCHANGED <<pc, video, languages, subtitle, matches, frame, requests,
                   responses, returned, error, cache>>

\* WizdomProvider.terminate
terminate ==
    /\ pc = "idle"
    /\ session = "open"
    /\ session' = "closed"
    /\ UNCHANGED <<pc, video, languages, subtitle, matches, frame, requests,
                   responses, returned, error, cache>>

\* the operation's caller takes its result (or its exception)
Return ==
    /\ pc = "done"
    /\ pc' = "idle"
    /\ video' = NoVideo
    /\ languages' = {}
    /\ subtitle' = NoSubtitle
    /\ matches' = {}
    /\ frame' = NoFrame
    /\ requests' = <<>>
    /\ responses' = <<>>
    /\ returned' = <<>>
    /\ error' = ""
    /\ UNCHANGED <<session, cache>>

\* an entry of the region cache reaches its expiration_time
Expire(k) ==
    /\ pc = "idle"
    /\ cache[k] # NoValue
    /\ cache' = [cache EXCEPT ![k] = NoValue]
    /\ UNCHANGED <<pc, session, video, languages, subtitle, matches, frame,
                   requests, responses, returned, error>>

-----------------------------------------------------------------------------
(* list_subtitles -> query -> _search_imdb_id -> _get_subtitles_for_episode *)

\* query without 'if not imdb_id: return {}'
QueryWithIdUnchecked(fr, imdb_id, reqs) ==
    /\ pc' = "catalog"
    /\ frame' = [fr EXCEPT !.imdb_id = imdb_id,
                           !.page_link = PageLink(fr.is_movie, imdb_id)]
    /\ requests' = Append(reqs, CatalogRequest(imdb_id, fr.season, fr.episode))
    /\ returned' = <<>>
    /\ error' = ""

\* query from 'if not imdb_id' on, once imdb_id is known: return {} (which
\* list_subtitles turns into []), or build page_link and issue the catalog
\* request of _get_subtitles_for_episode
QueryWithId(fr, imdb_id, reqs) ==
    IF ~TruthyStr(imdb_id)
    THEN /\ pc' = "done"
         /\ frame' = [fr EXCEPT !.imdb_id = imdb_id]
         /\ requests' = reqs
         /\ returned' = <<>>
         /\ error' = ""
    ELSE /\ pc' = "catalog"
         /\ frame' = [fr EXCEPT !.imdb_id = imdb_id,
                                !.page_link = PageLink(fr.is_movie, imdb_id)]
         /\ requests' = Append(reqs, CatalogRequest(imdb_id, fr.season, fr.episode))
         /\ returned' = <<>>
         /\ error' = ""

\* list_subtitles without 'imdb_id = video.series_imdb_id'
ListFrameVideoId(v) ==
    LET episode_video == v.kind = "Episode"
        title == IF episode_video THEN v.series ELSE v.title
        season == IF episode_video THEN v.season ELSE NoneInt
        episode == IF episode_video THEN v.episode ELSE NoneInt
        is_movie == IsMovie(season, episode)
    IN  [NoFrame EXCEPT !.title = title, !.season = season,
                        !.episode = episode, !.year = v.year,
                        !.filename = v.name, !.imdb_id = v.imdb_id,
                        !.is_movie = is_movie,
                        !.category = Category(is_movie)]

\* the locals of list_subtitles and query before the identifier is resolved
ListFrame(v) ==
    LET episode_video == v.kind = "Episode"
        title == IF episode_video THEN v.series ELSE v.title
        season == IF episode_video THEN v.season ELSE NoneInt
        episode == IF episode_video THEN v.episode ELSE NoneInt
        imdb_id == IF episode_video THEN v.series_imdb_id ELSE v.imdb_id
        is_movie == IsMovie(season, episode)
    IN  [NoFrame EXCEPT !.title = title, !.season = season,
                        !.episode = episode, !.year = v.year,
                        !.filename = v.name, !.imdb_id = imdb_id,
                        !.is_movie = is_movie,
                        !.category = Category(is_movie)]

\* list_subtitles(video, languages) up to the first HTTP request: with an
\* identifier, or with a cached resolution, query goes on to the catalog;
\* otherwise _search_imdb_id issues the metadata search
list_subtitles(v, langs) ==
    /\ pc = "idle"
    /\ session = "open"
    /\ video' = v
    /\ languages' = langs
    /\ responses' = <<>>
    /\ LET fr == ListFrame(v)
           key == CacheKey(fr.title, fr.year, fr.is_movie)
       IN  IF TruthyStr(fr.imdb_id) THEN QueryWithId(fr, fr.imdb_id, <<>>)
           ELSE IF cache[key] # NoValue THEN QueryWithId(fr, cache[key], <<>>)
           ELSE /\ pc' = "search"
                /\ frame' = fr
                /\ requests' = <<SearchRequest(fr.category,
                                     RemoveApostrophes(fr.title), fr.year)>>
                /\ returned' = <<>>
                /\ error' = ""
    /\ UNCHANGED <<session, subtitle, matches, cache>>

\* an exception that nothing catches leaves the operation
Raise(err) ==
    /\ pc' = "done"
    /\ error' = err
    /\ returned' = <<>>
    /\ UNCHANGED <<frame, requests>>

\* _search_imdb_id after the search response
SearchResponse(resp) ==
    /\ pc = "search"
    /\ responses' = Append(responses, resp)
    /\ LET key == CacheKey(frame.title, frame.year, frame.is_movie)
           tmdb_id == FirstTmdbId(resp.body)
           err == RequestError(resp, "ValueError")
       IN  IF err # "" THEN Raise(err) /\ cache' = cache
           ELSE IF ~TruthyInt(tmdb_id)
           THEN /\ cache' = [cache EXCEPT ![key] = NoneStr]
                /\ QueryWithId(frame, NoneStr, requests)
           ELSE /\ pc' = "detail"
                /\ frame' = [frame EXCEPT !.tmdb_id = tmdb_id]
                /\ requests' = Append(requests,
                                 DetailRequest(frame.category, tmdb_id, frame.is_movie))
                /\ returned' = <<>>
                /\ error' = ""
                /\ cache' = cache
    /\ UNCHANGED <<session, video, languages, subtitle, matches>>

\* _search_imdb_id after the detail response
DetailResponse(resp) ==
    /\ pc = "detail"
    /\ responses' = Append(responses, resp)
    /\ LET key == CacheKey(frame.title, frame.year, frame.is_movie)
           err == RequestError(resp, "ValueError")
       IN  IF err # "" THEN Raise(err) /\ cache' = cache
           ELSE /\ cache' = [cache EXCEPT ![key] = ImdbIdOf(resp.body)]
                /\ QueryWithId(frame, ImdbIdOf(resp.body), requests)
    /\ UNCHANGED <<session, video, languages, subtitle, matches>>

\* _get_subtitles_for_episode after the catalog response, the loop of
\* query and the filter of list_subtitles
CatalogResponse(resp) ==
    /\ pc = "catalog"
    /\ responses' = Append(responses, resp)
    /\ LET err == RequestError(resp, "ValueError")
           results == CatalogResults(resp)
           subtitles == BuildSubtitles(frame, results, <<>>)
       IN  IF err # "" /\ ~Caught(err)
           THEN /\ error' = err
                /\ returned' = <<>>
                /\ frame' = frame
           ELSE /\ error' = ""
                /\ frame' = [frame EXCEPT !.results = results,
                                          !.subtitles = subtitles]
                /\ returned' = FilterLanguages(subtitles, languages)
    /\ pc' = "done"
    /\ UNCHANGED <<session, video, languages, subtitle, matches, requests, cache>>

-----------------------------------------------------------------------------
(* download_subtitle *)

\* subliminal.subtitle.fix_line_ending:
\* content.replace(b'\r\n', b'\n').replace(b'\r', b'\n')
RECURSIVE ReplaceCRLF(_)
ReplaceCRLF(b) ==
    IF b = <<>> THEN <<>>
    ELSE IF Len(b) >= 2 /\ b[1] = "CR" /\ b[2] = "LF"
         THEN <<"LF">> \o ReplaceCRLF(Tail(Tail(b)))
         ELSE <<Head(b)>> \o ReplaceCRLF(Tail(b))

ReplaceCR(b) == [i \in 1..Len(b) |-> IF b[i] = "CR" THEN "LF" ELSE b[i]]

fix_line_ending(b) == ReplaceCR(ReplaceCRLF(b))

\* os.path.splitext(n)[1] for the entry names of the model
SplitExt(n) ==
    CASE n = "a.srt" -> ".srt"
      [] n = "b.sub" -> ".sub"
      [] n = "c.SRT" -> ".SRT"
      [] OTHER -> ".nfo"

\* namelist = [n for n in zf.namelist() if splitext(n)[1] in ['.srt', '.sub']]
RECURSIVE QualifyingNames(_)
QualifyingNames(archive) ==
    IF archive = <<>> THEN <<>>
    ELSE IF SplitExt(Head(archive).name) \in {".srt", ".sub"}
         THEN <<Head(archive).name>> \o QualifyingNames(Tail(archive))
         ELSE QualifyingNames(Tail(archive))

\* zf.read(name): the data of the last entry written under that name
ZipRead(archive, name) ==
    LET at == {i \in 1..Len(archive) : archive[i].name = name}
        last == CHOOSE i \in at : \A j \in at : j <= i
    IN  archive[last].data

\* the entries of a downloaded archive
ArchiveEntries ==
    [name : {"a.srt", "b.sub"},
     data : {<<"x", "CR", "LF", "y", "CR", "LF">>, <<"z", "LF">>}]
    \cup [name : {"c.SRT", "d.nfo"}, data : {<<"z", "LF">>}]

DownloadResponses ==
    {Response(k, <<>>) : k \in {"exception", "status", "undecodable"}}
    \cup {Response("ok", b) : b \in SeqsUpTo(ArchiveEntries, MaxEntries)}

\* the subtitles handed to download_subtitle: candidates query built, not
\* yet downloaded or downloaded before
Downloadable ==
    {[WizdomSubtitle(Hebrew, FALSE, PageLink(FALSE, "tt1"),
                     <<"a", " ", "'", "B">>, 1, 1, <<"a", " ", "'", "B">>,
                     "tt1", id, "A.b.S01E01.HDTV")
        EXCEPT !.content = c] :
       id \in CatalogIds, c \in {NoneBytes, <<"o", "LF">>}}

\* download_subtitle(subtitle) up to its HTTP request
download_subtitle(sub) ==
    /\ pc = "idle"
    /\ session = "open"
    /\ subtitle' = sub
    /\ requests' = <<DownloadRequest(sub)>>
    /\ responses' = <<>>
    /\ pc' = "download"
    /\ error' = ""
    /\ UNCHANGED <<session, video, languages, matches, frame, returned, cache>>

\* the content assigned before the namelist is checked for ambiguity
DownloadedContentFirstEntry(sub, archive) ==
    LET namelist == QualifyingNames(archive)
    IN  IF Len(namelist) >= 1
        THEN fix_line_ending(ZipRead(archive, namelist[1]))
        ELSE sub.content

\* the content download_subtitle leaves in the subtitle, given the archive
DownloadedContent(sub, archive) ==
    LET namelist == QualifyingNames(archive)
    IN  IF Len(namelist) = 1
        THEN fix_line_ending(ZipRead(archive, namelist[1]))
        ELSE sub.content

\* the exception download_subtitle ends with, "" when it returns
DownloadError(resp) ==
    CASE RequestError(resp, "BadZipFile") # "" -> RequestError(resp, "BadZipFile")
      [] Len(QualifyingNames(resp.body)) > 1 -> "ProviderError"
      [] Len(QualifyingNames(resp.body)) = 0 -> "IndexError"
      [] OTHER -> ""

\* download_subtitle after the download response
DownloadResponse(resp) ==
    /\ pc = "download"
    /\ responses' = Append(responses, resp)
    /\ error' = DownloadError(resp)
    /\ subtitle' = IF RequestError(resp, "BadZipFile") = ""
                   THEN [subtitle EXCEPT
                           !.content = DownloadedContent(subtitle, resp.body)]
                   ELSE subtitle
    /\ pc' = "done"
    /\ UNCHANGED <<session, video, languages, matches, frame, requests,
                   returned, cache>>

-----------------------------------------------------------------------------
(* get_matches as an operation *)

\* the candidates and videos get_matches is applied to
MatchSubtitles ==
    [language : {Hebrew}, hearing_impaired : {FALSE},
     page_link : {PageLink(FALSE, "tt1")},
     series : {<<"A", "-", "b">>, <<"a", "b">>}, season : Nums, episode : Nums,
     title : {<<"a", "b">>}, imdb_id : {NoneStr} \cup ImdbIds,
     subtitle_id : {7}, downloaded : {0}, release : Releases,
     content : {NoneBytes}]

MatchVideos ==
    [kind : {"Episode"}, title : {NoneName, <<"A", "b">>},
     series : Names \cup {<<>>}, season : Nums, episode : Nums,
     year : {NoneInt}, imdb_id : {NoneStr},
     series_imdb_id : {NoneStr, "", "tt1"}, name : {"v.mkv"}]
    \cup
    [kind : {"Movie"}, title : {NoneName, <<"A", "b">>, <<"a", " ", "b">>},
     series : {NoneName}, season : {NoneInt}, episode : {NoneInt},
     year : Years, imdb_id : {NoneStr, "tt2"}, series_imdb_id : {NoneStr},
     name : {"v.mkv"}]

\* a candidate and a video, before get_matches is called on them
InitMatch ==
    /\ pc = "idle"
    /\ session = "none"
    /\ video \in MatchVideos
    /\ languages = {}
    /\ subtitle \in MatchSubtitles
    /\ matches = {}
    /\ frame = NoFrame
    /\ requests = <<>>
    /\ responses = <<>>
    /\ returned = <<>>
    /\ error = ""
    /\ cache = [k \in CacheKeys |-> NoValue]

\* subtitle.get_matches(video)
GetMatches ==
    /\ pc = "idle"
    /\ matches' = get_matches(subtitle, video)
    /\ pc' = "done"
    /\ UNCHANGED <<session, video, languages, subtitle, frame, requests,
                   responses, returned, error, cache>>

-----------------------------------------------------------------------------
(* Specifications *)

\* the provider: its lifecycle, list_subtitles and download_subtitle
Next ==
    \/ initialize
    \/ terminate
    \/ \E k \in CacheKeys : Expire(k)
    \/ \E v \in Videos, langs \in LanguageSets : list_subtitles(v, langs)
    \/ \E resp \in SearchResponses : SearchResponse(resp)
    \/ \E resp \in DetailResponses : DetailResponse(resp)
    \/ \E resp \in CatalogResponses : CatalogResponse(resp)
    \/ \E sub \in Downloadable : download_subtitle(sub)
    \/ \E resp \in DownloadResponses : DownloadResponse(resp)
    \/ Return

Spec == Init /\ [][Next]_vars

\* get_matches applied to every candidate and video of the model
NextMatch == GetMatches

SpecMatch == InitMatch /\ [][NextMatch]_vars

-----------------------------------------------------------------------------
(* C1: the series, season, episode and series_imdb_id tags of get_matches *)

\* the guess the release label of the scored candidate yields
ReleaseGuess == guessit(subtitle.release, "episode")

\* an Episode video and a candidate whose compared fields are all set: a
\* series name, season and episode numbers (0 for a special), identifiers
AllFieldsSet ==
    /\ video.kind = "Episode"
    /\ video.series \notin {NoneName, <<>>}
    /\ NoneInt \notin {video.season, video.episode, subtitle.season, subtitle.episode}
    /\ video.series_imdb_id \notin {NoneStr, ""}
    /\ subtitle.imdb_id # NoneStr

-----------------------------------------------------------------------------
(* The running operation, read from the state *)

\* list_subtitles is running or has ended
Listing == video # NoVideo /\ pc # "idle"

\* the last request issued has been answered
Answered == responses # <<>> /\ Len(responses) = Len(requests)

LastRequest == requests[Len(requests)]
LastResponse == responses[Len(responses)]

\* the identifier list_subtitles takes from the video
VideoImdbId ==
    IF video.kind = "Episode" THEN video.series_imdb_id ELSE video.imdb_id

-----------------------------------------------------------------------------
(* C2: the content download_subtitle sets *)

\* the entries of an archive whose extension is .srt or .sub
SubtitleEntries(archive) ==
    {i \in 1..Len(archive) : archive[i].name \in {"a.srt", "b.sub"}}

\* the entry data of the model with "\r\n" written as "\n"
NormalizedData(data) ==
    IF data = <<"x", "CR", "LF", "y", "CR", "LF">>
    THEN <<"x", "LF", "y", "LF">>
    ELSE data

\* C2: when the download response is an archive, download_subtitle sets
\* subtitle.content to the normalized bytes of the only .srt/.sub entry if
\* there is exactly one, and with two or more such entries it raises the
\* ProviderError and leaves subtitle.content as it was before the call.
C2_DownloadContent ==
    [][(pc = "download" /\ pc' = "done" /\ responses'[1].kind = "ok") =>
        LET archive == responses'[1].body
            entries == SubtitleEntries(archive)
        IN  /\ Cardinality(entries) = 1 =>
                 /\ error' = ""
                 /\ \A i \in entries :
                      subtitle'.content = NormalizedData(archive[i].data)
            /\ Cardinality(entries) >= 2 =>
                 /\ error' = "ProviderError"
                 /\ subtitle'.content = subtitle.content]_vars

\* a subtitle downloaded before is downloaded again from an archive of two
\* entries of which one is a subtitle file with "\r\n" line endings
C2_Witness ==
    /\ pc = "done"
    /\ Answered
    /\ IsDownloadRequest(requests[1])
    /\ responses[1].kind = "ok"
    /\ Len(responses[1].body) = 2
    /\ Cardinality(SubtitleEntries(responses[1].body)) = 1
    /\ error = ""
    /\ subtitle.content = <<"x", "LF", "y", "LF">>

-----------------------------------------------------------------------------
(* C3: one candidate per distinct id, the last record of an id kept *)

\* the last record of a catalog body that carries the id
LastRecordOf(body, id) ==
    body[CHOOSE j \in 1..Len(body) :
            /\ body[j].id = id
            /\ \A k \in (j + 1)..Len(body) : body[k].id # id]

\* C3: after a catalog response that is a sequence of records, the list
\* query returns has exactly one candidate per distinct id of the response,
\* no two candidates share a subtitle_id, and each candidate's release is
\* the versioname of the last record carrying its id.
C3_OneCandidatePerId ==
    (Listing /\ Answered /\ IsCatalogRequest(LastRequest)
       /\ LastResponse.kind = "ok") =>
        LET body == LastResponse.body
            subs == frame.subtitles
        IN  /\ {subs[i].subtitle_id : i \in 1..Len(subs)}
                 = {body[j].id : j \in 1..Len(body)}
            /\ \A i, j \in 1..Len(subs) :
                 subs[i].subtitle_id = subs[j].subtitle_id => i = j
            /\ \A i \in 1..Len(subs) :
                 subs[i].release = LastRecordOf(body, subs[i].subtitle_id).versioname

\* the catalog answered with two records of id 7 with different release
\* labels, and query built one candidate from them
C3_Witness ==
    /\ Listing /\ Answered /\ IsCatalogRequest(LastRequest)
    /\ LastResponse.kind = "ok"
    /\ LastResponse.body = <<[id |-> 7, versioname |-> "A.b.S01E01.HDTV"],
                             [id |-> 7, versioname |-> "a-b.S00E01"]>>
    /\ Len(frame.subtitles) = 1
    /\ frame.subtitles[1].release = "a-b.S00E01"

-----------------------------------------------------------------------------
(* C4: a failed catalog lookup is an empty result *)

\* C4: when the catalog request raises, answers with a non-success status
\* or with a body that is not JSON, the lookup returns an empty list and
\* list_subtitles ends without error with an empty list.
C4_CatalogFailureIsEmpty ==
    (Listing /\ Answered /\ IsCatalogRequest(LastRequest)
       /\ LastResponse.kind \in {"exception", "status", "undecodable"}) =>
        /\ pc = "done"
        /\ error = ""
        /\ frame.results = <<>>
        /\ returned = <<>>

\* the catalog answered a request for Hebrew subtitles with a non-success
\* status
C4_Witness ==
    /\ Listing /\ Answered /\ IsCatalogRequest(LastRequest)
    /\ LastResponse.kind = "status"
    /\ Hebrew \in languages
    /\ pc = "done"

-----------------------------------------------------------------------------
(* C5: no search results, no detail request *)

\* the metadata search answered without a usable 'results' array
NoSearchResults ==
    /\ Listing
    /\ responses # <<>>
    /\ IsSearchRequest(requests[1])
    /\ responses[1].kind = "ok"
    /\ \/ ~responses[1].body.has_results
       \/ responses[1].body.results = <<>>

\* C5: when the search response has a missing or empty 'results' array,
\* _search_imdb_id returns None having issued that one request: no detail
\* request (and no other request) follows.
C5_NoResultsOneRequest ==
    NoSearchResults =>
        /\ Len(requests) = 1
        /\ frame.imdb_id = NoneStr
        /\ error = ""
        /\ pc = "done"

\* the search answered with an empty 'results' array
C5_Witness ==
    /\ NoSearchResults
    /\ responses[1].body.has_results
    /\ pc = "done"

-----------------------------------------------------------------------------
(* C6: a non-success status on search, detail or download *)

\* the i-th exchange is a metadata or download request answered with a
\* non-success status
StatusFailure(i) ==
    /\ responses[i].kind = "status"
    /\ \/ IsSearchRequest(requests[i])
       \/ IsDetailRequest(requests[i])
       \/ IsDownloadRequest(requests[i])

\* the operation ended with the HTTP error at the request that failed: it
\* is the last request issued and nothing was returned
EndsAtFailure ==
    \A i \in 1..Len(responses) :
        StatusFailure(i) =>
            /\ i = Len(requests)
            /\ pc = "done"
            /\ error = "HTTPError"
            /\ returned = <<>>

\* C6: a non-success status on the search, detail or download request ends
\* the operation with an error and no result, no request is issued after
\* the failed one (no retry, no detail or catalog request), and a failed
\* download leaves the subtitle as it was.
C6_StatusFailureEndsOperation ==
    /\ []EndsAtFailure
    /\ [][(pc = "download" /\ responses'[1].kind = "status") =>
            subtitle' = subtitle]_vars

\* the detail request of a resolution was answered with a non-success
\* status
C6_Witness ==
    /\ Len(responses) = 2
    /\ IsDetailRequest(requests[2])
    /\ StatusFailure(2)
    /\ pc = "done"
    /\ error = "HTTPError"

-----------------------------------------------------------------------------
(* C7: a resolution that finds nothing is an empty result *)

\* list_subtitles got no identifier from the video and _search_imdb_id
\* returned None: from its cache, after a search without a usable first
\* result, or after a detail body whose imdb_id is missing or empty
ResolvedNone ==
    /\ Listing
    /\ VideoImdbId \in {NoneStr, ""}
    /\ \/ /\ responses = <<>>
          /\ cache[CacheKey(frame.title, frame.year, frame.is_movie)] = NoneStr
       \/ /\ Len(responses) = 1
          /\ IsSearchRequest(requests[1])
          /\ responses[1].kind = "ok"
          /\ \/ ~responses[1].body.has_results
             \/ responses[1].body.results = <<>>
             \/ responses[1].body.results[1] \in {NoneInt, 0}
       \/ /\ Len(responses) = 2
          /\ IsDetailRequest(requests[2])
          /\ responses[2].kind = "ok"
          /\ responses[2].body \in {"<absent>", ""}

\* C7: when query has no identifier and the resolution returns None, the
\* operation ends without error, list_subtitles returns an empty list and
\* no request to the catalog search endpoint is issued.
C7_ResolvedNoneIsEmpty ==
    ResolvedNone =>
        /\ pc = "done"
        /\ error = ""
        /\ returned = <<>>
        /\ \A i \in 1..Len(requests) : ~IsCatalogRequest(requests[i])

\* the detail body of a resolution for Hebrew subtitles had no imdb_id
C7_Witness ==
    /\ ResolvedNone
    /\ Len(responses) = 2
    /\ responses[2].body = "<absent>"
    /\ Hebrew \in languages
    /\ pc = "done"

-----------------------------------------------------------------------------
(* C8: the candidates returned are in a requested language *)

\* C8: every candidate list_subtitles returns has a language of the
\* requested set, and nothing is returned when Hebrew is not requested.
C8_ReturnedLanguagesRequested ==
    Listing =>
        /\ \A i \in 1..Len(returned) : returned[i].language \in languages
        /\ Hebrew \notin languages => returned = <<>>

\* query built candidates and list_subtitles, asked for another language,
\* returned none of them
C8_Witness ==
    /\ Listing
    /\ pc = "done"
    /\ languages = {"en"}
    /\ Len(frame.subtitles) = 2
    /\ returned = <<>>

-----------------------------------------------------------------------------
(* C9: an Episode's series_imdb_id is used as given *)

\* C9: for an Episode video with a non-empty series_imdb_id, list_subtitles
\* issues no metadata search or detail request, every candidate returned
\* carries that identifier and its get_matches against the video contains
\* 'series_imdb_id'; a catalog response with the single record id 9, Hebrew
\* being requested, yields exactly one candidate, of subtitle_id 9.
C9_SeriesImdbIdAsGiven ==
    (Listing /\ video.kind = "Episode"
       /\ video.series_imdb_id \notin {NoneStr, ""}) =>
        /\ \A i \in 1..Len(requests) :
             ~IsSearchRequest(requests[i]) /\ ~IsDetailRequest(requests[i])
        /\ \A i \in 1..Len(returned) :
             /\ returned[i].imdb_id = video.series_imdb_id
             /\ "series_imdb_id" \in get_matches(returned[i], video)
        /\ (/\ Answered
            /\ LastResponse.kind = "ok"
            /\ Len(LastResponse.body) = 1
            /\ LastResponse.body[1].id = 9
            /\ Hebrew \in languages) =>
               /\ Len(returned) = 1
               /\ returned[1].subtitle_id = 9

\* the catalog answered the lookup for an Episode that has a series_imdb_id
\* with the single record of id 9
C9_Witness ==
    /\ Listing
    /\ pc = "done"
    /\ video.kind = "Episode"
    /\ video.series_imdb_id = "tt1"
    /\ Len(frame.results) = 1
    /\ Len(returned) = 1
    /\ returned[1].subtitle_id = 9
    /\ "series_imdb_id" \in get_matches(returned[1], video)

-----------------------------------------------------------------------------
(* C10: an Episode video is queried as a series *)

\* C10: for an Episode video, whatever its season and episode numbers, the
\* query is not a movie query: the resolver's requests use the category
\* 'tv' (the detail request the external_ids sub-resource), and the
\* page_link of every candidate uses the 'series' path segment; is_movie
\* holds for Movie videos only.
C10_EpisodeQueriedAsSeries ==
    (Listing /\ video.kind = "Episode") =>
        /\ ~frame.is_movie
        /\ \A i \in 1..Len(requests) :
             /\ IsSearchRequest(requests[i]) => requests[i][3] = "tv"
             /\ IsDetailRequest(requests[i]) =>
                  requests[i][3] = "tv" /\ requests[i][5] = "/external_ids"
        /\ \A i \in 1..Len(frame.subtitles) :
             frame.subtitles[i].page_link[4] = "series"

====
